---- MODULE Spec2Model ----
(***************************************************************************)
(* Model of the WebSocket server manager of Firebot                        *)
(* (src/src/server/websocket-server-manager.ts): the per-connection        *)
(* registration handshake, the dispatch of inbound frames, the table of    *)
(* custom plugin handlers and the broadcast of events.                     *)
(*                                                                         *)
(* Node runs every handler to completion on one thread, so each handler    *)
(* (connection, message, timer callback, triggerEvent, register,           *)
(* unregister) is one atomic action.  The transport (the ws library) is    *)
(* the environment: it accepts sockets, delivers message events while a    *)
(* socket is OPEN or CLOSING, and moves a socket to CLOSED.  ws.close acts *)
(* on an OPEN socket only.  The variable sent records the frames the code  *)
(* hands to ws.send, whatever the transport then does with them.           *)
(*                                                                         *)
(* Inbound payloads are either unparsable or objects of the declared       *)
(* Message type (the handler casts JSON.parse's result to it): id is a     *)
(* number, pluginName a string or absent.                                  *)
(***************************************************************************)
EXTENDS Integers, Sequences, FiniteSets, TLC

(***************************************************************************)
(* Bounds of the model.                                                    *)
(***************************************************************************)
\* response frames handed to ws.send (over all connections) and plugin
\* callback invocations, together
MaxOutputs == 2
\* event frames handed to one connection
MaxEvents == 1

(***************************************************************************)
(* Program constants.                                                      *)
(***************************************************************************)
RegistrationTimeoutCode == 4000
ProcessingErrorCode == 4006

Conns == {"c1", "c2"}

\* JavaScript's null / undefined for a field of a parsed message
Null == "null"
Undefined == "undefined"

Ids == {1, 2}
PluginNames == {"foo", "Foo", ""}
Callbacks == {"cb1", "cb2", "cbThrows"}

\* String.prototype.toLowerCase on the names the model uses
ToLowerCase(s) == IF s = "Foo" THEN "foo" ELSE s

\* what a registered callback does when it is called: returns, or throws
CallbackThrows(cb) == cb = "cbThrows"
CallbackErrorMessage == "plugin callback failed"

(***************************************************************************)
(* Inbound payloads: the bytes of one frame, by what JSON.parse makes of   *)
(* them.  json = "invalid" does not parse; json = "object" parses to an    *)
(* object with the fields given (Undefined: the field is absent).          *)
(***************************************************************************)
Payload(j, t, i, n, p, d) ==
    [json |-> j, type |-> t, id |-> i, name |-> n, pluginName |-> p, data |-> d]

InvalidPayload == Payload("invalid", Undefined, 1, Undefined, Undefined, Undefined)
SubscribePayload(i) == Payload("object", "invoke", i, "subscribe-events", Undefined, Undefined)
PluginPayload(i, p, d) == Payload("object", "invoke", i, "plugin", p, d)
OtherCommandPayload == Payload("object", "invoke", 1, "refresh", Undefined, Undefined)
ResponsePayload == Payload("object", "response", 1, "success", Undefined, Null)
OtherTypePayload == Payload("object", "event", 2, "test", Undefined, "d1")

Payloads ==
    {InvalidPayload, OtherCommandPayload, ResponsePayload, OtherTypePayload}
    \cup {SubscribePayload(1)}
    \cup {PluginPayload(1, Undefined, "d1"), PluginPayload(1, "", "d2")}
    \cup {PluginPayload(2, "Foo", "d1")}

\* the frames a client sends: the first connection sends any payload, the
\* second one is a client that only ever subscribes
PayloadsOn(c) == IF c = "c1" THEN Payloads ELSE {SubscribePayload(1)}

\* JSON.parse(data.toString()): a SyntaxError, or the parsed value
JSONparse(raw) ==
    IF raw.json = "invalid"
    THEN [threw |-> TRUE, error |-> "Unexpected token in JSON", value |-> raw]
    ELSE [threw |-> FALSE, error |-> "", value |-> raw]

VARIABLES
    server,               \* this.server: "null" before createServer, then "listening"
    readyState,           \* ws.readyState of each connection ("NONE" before accept)
    wsType,               \* ws.type: Null or "events"
    registrationTimeout,  \* ws.registrationTimeout: "none", "pending", "cleared", "fired"
    closeCode,            \* code of the close that took the socket out of OPEN, 0 if none
    closeReason,          \* its reason
    sent,                 \* the frames handed to ws.send, per connection, in order
    customHandlers,       \* this.customHandlers
    calls,                \* the plugin callback invocations, in order
    handled,              \* parity of the number of calls made so far of the message
                          \* handler, triggerEvent, register and unregister
    sendErrors            \* the connections whose send callback got an error, which
                          \* triggerEvent logged

vars == <<server, readyState, wsType, registrationTimeout, closeCode, closeReason,
          sent, customHandlers, calls, handled, sendErrors>>

\* the event frames among the frames sent to connection c
Events(c) == SelectSeq(sent[c], LAMBDA frame : frame.type = "event")

\* the responses and callback calls the server has put out so far
Outputs == Len(sent["c1"]) + Len(sent["c2"]) - Len(Events("c1")) - Len(Events("c2"))
           + Len(calls)

(***************************************************************************)
(* sendResponse / sendError: the response frame handed to ws.send.         *)
(***************************************************************************)
SuccessResponse(messageId) ==
    [type |-> "response", id |-> messageId, name |-> "success", data |-> Null]

ErrorResponseWrongId(messageId, errorMessage) ==
    [type |-> "response", id |-> 3 - messageId, name |-> "error", data |-> errorMessage]

ErrorResponse(messageId, errorMessage) ==
    [type |-> "response", id |-> messageId, name |-> "error", data |-> errorMessage]

EventMessage(eventType, payload) ==
    [type |-> "event", id |-> 0, name |-> eventType, data |-> payload]

(***************************************************************************)
(* this.customHandlers.find / findIndex with the case-insensitive test:    *)
(* the index of the first matching entry, 0 if there is none.              *)
(***************************************************************************)
FindIndexCaseSensitive(handlers, pluginName) ==
    LET hits == {i \in 1..Len(handlers) : handlers[i].pluginName = pluginName}
    IN IF hits = {} THEN 0 ELSE CHOOSE i \in hits : \A j \in hits : i <= j

FindIndex(handlers, pluginName) ==
    LET hits == {i \in 1..Len(handlers) :
                    ToLowerCase(handlers[i].pluginName) = ToLowerCase(pluginName)}
    IN IF hits = {} THEN 0 ELSE CHOOSE i \in hits : \A j \in hits : i <= j

\* Array.prototype.splice(index, 1)
SpliceToEnd(s, index) == [i \in 1..(index - 1) |-> s[i]]

Splice(s, index) == [i \in 1..(Len(s) - 1) |-> IF i < index THEN s[i] ELSE s[i + 1]]

Init ==
    /\ server = "null"
    /\ readyState = [c \in Conns |-> "NONE"]
    /\ wsType = [c \in Conns |-> Null]
    /\ registrationTimeout = [c \in Conns |-> "none"]
    /\ closeCode = [c \in Conns |-> 0]
    /\ closeReason = [c \in Conns |-> ""]
    /\ sent = [c \in Conns |-> <<>>]
    /\ customHandlers = <<>>
    /\ calls = <<>>
    /\ handled = 0
    /\ sendErrors = {}


(***************************************************************************)
(* The transport's part of a handler.                                      *)
(***************************************************************************)
\* clearTimeout: a pending timer is cancelled, any other is left as it is
ClearTimeout(t) == IF t = "pending" THEN "cleared" ELSE t

\* ws.close(code, reason): starts the closing handshake of an OPEN socket and
\* does nothing on a socket that is already CLOSING or CLOSED
WsCloseAll(c, code, reason) ==
    IF readyState[c] = "OPEN"
    THEN /\ readyState' = [d \in Conns |-> IF readyState[d] = "OPEN" THEN "CLOSING"
                                          ELSE readyState[d]]
         /\ closeCode' = [d \in Conns |-> IF readyState[d] = "OPEN" THEN code
                                        ELSE closeCode[d]]
         /\ closeReason' = [d \in Conns |-> IF readyState[d] = "OPEN" THEN reason
                                          ELSE closeReason[d]]
    ELSE UNCHANGED <<readyState, closeCode, closeReason>>

WsClose(c, code, reason) ==
    IF readyState[c] = "OPEN"
    THEN /\ readyState' = [readyState EXCEPT ![c] = "CLOSING"]
         /\ closeCode' = [closeCode EXCEPT ![c] = code]
         /\ closeReason' = [closeReason EXCEPT ![c] = reason]
    ELSE UNCHANGED <<readyState, closeCode, closeReason>>

(***************************************************************************)
(* The outcome of handling one parsed message on connection c: the new     *)
(* ws.type and timer, the frames handed to ws.send, the callbacks called,  *)
(* and the exception that left the try block, if any.                      *)
(***************************************************************************)
Outcome(t, timer, out, called, threw, error) ==
    [type |-> t, timer |-> timer, out |-> out, called |-> called,
     threw |-> threw, error |-> error]

Unchanged(c, out) == Outcome(wsType[c], registrationTimeout[c], out, <<>>, FALSE, "")

\* case "subscribe-events"
SubscribeEventsKeepsTimer(c, message) ==
    IF wsType[c] # Null
    THEN Unchanged(c, <<ErrorResponse(message.id, "socket already subscribed")>>)
    ELSE Outcome("events", registrationTimeout[c],
                 <<SuccessResponse(message.id)>>, <<>>, FALSE, "")

SubscribeEventsResubscribes(c, message) ==
    IF wsType[c] # Null
    THEN Outcome(Null, registrationTimeout[c],
                 <<ErrorResponse(message.id, "socket already subscribed")>>, <<>>, FALSE, "")
    ELSE Outcome("events", ClearTimeout(registrationTimeout[c]),
                 <<SuccessResponse(message.id)>>, <<>>, FALSE, "")

SubscribeEventsIdempotent(c, message) ==
    Outcome("events", ClearTimeout(registrationTimeout[c]),
            <<SuccessResponse(message.id)>>, <<>>, FALSE, "")

SubscribeEvents(c, message) ==
    IF wsType[c] # Null
    THEN Unchanged(c, <<ErrorResponse(message.id, "socket already subscribed")>>)
    ELSE Outcome("events", ClearTimeout(registrationTimeout[c]),
                 <<SuccessResponse(message.id)>>, <<>>, FALSE, "")

\* case "plugin"
InvokePluginAcks(c, message) ==
    LET pluginName == message.pluginName
        index == FindIndex(customHandlers, pluginName)
    IN IF pluginName = Undefined \/ pluginName = ""
       THEN Unchanged(c, <<ErrorResponse(message.id, "Must specify pluginName")>>)
       ELSE IF index # 0
            THEN LET plugin == customHandlers[index]
                 IN Outcome(wsType[c], registrationTimeout[c],
                            <<SuccessResponse(message.id)>>,
                            <<[callback |-> plugin.callback, data |-> message.data]>>,
                            CallbackThrows(plugin.callback), CallbackErrorMessage)
            ELSE Unchanged(c, <<ErrorResponse(message.id, "Unknown plugin name specified")>>)

InvokePluginSkipsNameCheck(c, message) ==
    LET pluginName == message.pluginName
        index == IF pluginName = Undefined THEN 0 ELSE FindIndex(customHandlers, pluginName)
    IN IF index # 0
       THEN LET plugin == customHandlers[index]
            IN Outcome(wsType[c], registrationTimeout[c], <<>>,
                       <<[callback |-> plugin.callback, data |-> message.data]>>,
                       CallbackThrows(plugin.callback), CallbackErrorMessage)
       ELSE Unchanged(c, <<ErrorResponse(message.id, "Unknown plugin name specified")>>)

InvokePluginSilentUnknown(c, message) ==
    LET pluginName == message.pluginName
        index == FindIndex(customHandlers, pluginName)
    IN IF pluginName = Undefined \/ pluginName = ""
       THEN Unchanged(c, <<ErrorResponse(message.id, "Must specify pluginName")>>)
       ELSE IF index # 0
            THEN LET plugin == customHandlers[index]
                 IN Outcome(wsType[c], registrationTimeout[c], <<>>,
                            <<[callback |-> plugin.callback, data |-> message.data]>>,
                            CallbackThrows(plugin.callback), CallbackErrorMessage)
            ELSE Unchanged(c, <<>>)

InvokePluginStopsTimer(c, message) ==
    LET pluginName == message.pluginName
        index == FindIndex(customHandlers, pluginName)
    IN IF pluginName = Undefined \/ pluginName = ""
       THEN Unchanged(c, <<ErrorResponse(message.id, "Must specify pluginName")>>)
       ELSE IF index # 0
            THEN LET plugin == customHandlers[index]
                 IN Outcome(wsType[c], ClearTimeout(registrationTimeout[c]), <<>>,
                            <<[callback |-> plugin.callback, data |-> message.data]>>,
                            CallbackThrows(plugin.callback), CallbackErrorMessage)
            ELSE Unchanged(c, <<ErrorResponse(message.id, "Unknown plugin name specified")>>)

InvokePlugin(c, message) ==
    LET pluginName == message.pluginName
        index == FindIndex(customHandlers, pluginName)
    IN IF pluginName = Undefined \/ pluginName = ""
       THEN Unchanged(c, <<ErrorResponse(message.id, "Must specify pluginName")>>)
       ELSE IF index # 0
            THEN LET plugin == customHandlers[index]
                 IN Outcome(wsType[c], registrationTimeout[c], <<>>,
                            <<[callback |-> plugin.callback, data |-> message.data]>>,
                            CallbackThrows(plugin.callback), CallbackErrorMessage)
            ELSE Unchanged(c, <<ErrorResponse(message.id, "Unknown plugin name specified")>>)

\* switch (message.type) / switch (message.name)
DispatchThrowsOnUnknown(c, message) ==
    IF message.type = "invoke"
    THEN IF message.name = "subscribe-events" THEN SubscribeEvents(c, message)
         ELSE IF message.name = "plugin" THEN InvokePlugin(c, message)
         ELSE Outcome(wsType[c], registrationTimeout[c],
                      <<ErrorResponse(message.id, "unknown command invocation")>>, <<>>,
                      TRUE, "unknown command invocation")
    ELSE Unchanged(c, <<>>)

DispatchRejectsOtherTypes(c, message) ==
    IF message.type = "invoke"
    THEN IF message.name = "subscribe-events" THEN SubscribeEvents(c, message)
         ELSE IF message.name = "plugin" THEN InvokePlugin(c, message)
         ELSE Unchanged(c, <<ErrorResponse(message.id, "unknown command invocation")>>)
    ELSE Unchanged(c, <<ErrorResponse(message.id, "unknown message type")>>)

Dispatch(c, message) ==
    IF message.type = "invoke"
    THEN IF message.name = "subscribe-events" THEN SubscribeEvents(c, message)
         ELSE IF message.name = "plugin" THEN InvokePlugin(c, message)
         ELSE Unchanged(c, <<ErrorResponse(message.id, "unknown command invocation")>>)
    ELSE Unchanged(c, <<>>)

\* the try block of the message handler
HandleMessageIgnoresParseError(c, raw) ==
    LET parsed == JSONparse(raw)
    IN IF parsed.threw
       THEN Unchanged(c, <<>>)
       ELSE Dispatch(c, parsed.value)

HandleMessage(c, raw) ==
    LET parsed == JSONparse(raw)
    IN IF parsed.threw
       THEN Outcome(wsType[c], registrationTimeout[c], <<>>, <<>>, TRUE, parsed.error)
       ELSE Dispatch(c, parsed.value)

(***************************************************************************)
(* Actions.                                                                *)
(***************************************************************************)
\* createServer(httpServer)
CreateServer ==
    /\ server = "null"
    /\ server' = "listening"
    /\ UNCHANGED <<readyState, wsType, registrationTimeout, closeCode, closeReason,
                   sent, customHandlers, calls, handled, sendErrors>>

\* this.server.on('connection', ...): the socket is open, the timer is started
Connection(c) ==
    /\ server = "listening"
    /\ readyState[c] = "NONE"
    /\ readyState' = [readyState EXCEPT ![c] = "OPEN"]
    /\ registrationTimeout' = [registrationTimeout EXCEPT ![c] = "pending"]
    /\ UNCHANGED <<server, wsType, closeCode, closeReason, sent, customHandlers, calls, handled, sendErrors>>

\* the setTimeout callback of a connection
RegistrationTimedOutWrongCode(c) ==
    /\ registrationTimeout[c] = "pending"
    /\ registrationTimeout' = [registrationTimeout EXCEPT ![c] = "fired"]
    /\ WsClose(c, ProcessingErrorCode, "Registration timed out")
    /\ UNCHANGED <<server, wsType, sent, customHandlers, calls, handled, sendErrors>>

RegistrationTimedOut(c) ==
    /\ registrationTimeout[c] = "pending"
    /\ registrationTimeout' = [registrationTimeout EXCEPT ![c] = "fired"]
    /\ WsClose(c, RegistrationTimeoutCode, "Registration timed out")
    /\ UNCHANGED <<server, wsType, sent, customHandlers, calls, handled, sendErrors>>

\* ws.on('message', ...)
OnMessage(c, raw) ==
    /\ readyState[c] \in {"OPEN", "CLOSING"}
    /\ handled' = 1 - handled
    /\ UNCHANGED <<server, customHandlers, sendErrors>>
    /\ LET r == HandleMessage(c, raw)
       IN /\ Outputs + Len(r.out) + Len(r.called) <= MaxOutputs
          /\ wsType' = [wsType EXCEPT ![c] = r.type]
          /\ registrationTimeout' = [registrationTimeout EXCEPT ![c] = r.timer]
          /\ sent' = [sent EXCEPT ![c] = @ \o r.out]
          /\ calls' = calls \o r.called
          /\ IF r.threw
             THEN WsClose(c, ProcessingErrorCode, r.error)
             ELSE UNCHANGED <<readyState, closeCode, closeReason>>

\* the transport is gone: the peer closed, the socket failed, or the closing
\* handshake the server started has finished
TransportClosed(c) ==
    /\ readyState[c] \in {"OPEN", "CLOSING"}
    /\ readyState' = [readyState EXCEPT ![c] = "CLOSED"]
    /\ UNCHANGED <<server, wsType, registrationTimeout, closeCode, closeReason,
                   sent, customHandlers, calls, handled, sendErrors>>

\* the clients triggerEvent sends to
RecipientsOfAnyState == {c \in Conns : wsType[c] = "events"}

Recipients == {c \in Conns : readyState[c] = "OPEN" /\ wsType[c] = "events"}

\* the connections whose transport can fail a send, which it reports to the
\* callback given to client.send
Unreliable == {"c2"}

\* triggerEvent(eventType, payload); failing: the recipients whose send fails
TriggerEventStopsAtFailure(eventType, payload, failing) ==
    /\ \A c \in Recipients : Len(Events(c)) < MaxEvents
    /\ IF server = "null"
       THEN failing = {} /\ UNCHANGED <<sent, sendErrors>>
       ELSE /\ failing \subseteq Recipients
            /\ sent' = [c \in Conns |->
                          IF c \in Recipients /\ (failing = {} \/ c \in failing)
                          THEN Append(sent[c], EventMessage(eventType, payload))
                          ELSE sent[c]]
            /\ sendErrors' = sendErrors \cup failing
    /\ handled' = 1 - handled
    /\ UNCHANGED <<server, readyState, wsType, registrationTimeout, closeCode,
                   closeReason, customHandlers, calls>>

TriggerEvent(eventType, payload, failing) ==
    /\ \A c \in Recipients : Len(Events(c)) < MaxEvents
    /\ IF server = "null"
       THEN failing = {} /\ UNCHANGED <<sent, sendErrors>>
       ELSE /\ failing \subseteq Recipients
            /\ sent' = [c \in Conns |->
                          IF c \in Recipients
                          THEN Append(sent[c], EventMessage(eventType, payload))
                          ELSE sent[c]]
            /\ sendErrors' = sendErrors \cup failing
    /\ handled' = 1 - handled
    /\ UNCHANGED <<server, readyState, wsType, registrationTimeout, closeCode,
                   closeReason, customHandlers, calls>>

(***************************************************************************)
(* registerCustomWebSocketListener / unregisterCustomWebSocketListener on   *)
(* the table handlers: the table the call leaves and the value it returns.  *)
(***************************************************************************)
registerOverwrites(handlers, pluginName, callback) ==
    LET index == FindIndex(handlers, pluginName)
    IN IF index = 0
       THEN [handlers |-> Append(handlers, [pluginName |-> pluginName, callback |-> callback]),
             returned |-> TRUE]
       ELSE [handlers |-> [handlers EXCEPT ![index].callback = callback], returned |-> FALSE]

registerCustomWebSocketListener(handlers, pluginName, callback) ==
    IF FindIndex(handlers, pluginName) = 0
    THEN [handlers |-> Append(handlers, [pluginName |-> pluginName, callback |-> callback]),
          returned |-> TRUE]
    ELSE [handlers |-> handlers, returned |-> FALSE]

unregisterCustomWebSocketListener(handlers, pluginName) ==
    LET pluginHandlerIndex == FindIndex(handlers, pluginName)
    IN IF pluginHandlerIndex # 0
       THEN [handlers |-> Splice(handlers, pluginHandlerIndex), returned |-> TRUE]
       ELSE [handlers |-> handlers, returned |-> FALSE]

\* a plugin calls registerCustomWebSocketListener(pluginName, callback)
Register(pluginName, callback) ==
    /\ customHandlers' =
           registerCustomWebSocketListener(customHandlers, pluginName, callback).handlers
    /\ handled' = 1 - handled
    /\ UNCHANGED <<server, readyState, wsType, registrationTimeout, closeCode,
                   closeReason, sent, calls, sendErrors>>

\* a plugin calls unregisterCustomWebSocketListener(pluginName)
Unregister(pluginName) ==
    /\ customHandlers' = unregisterCustomWebSocketListener(customHandlers, pluginName).handlers
    /\ handled' = 1 - handled
    /\ UNCHANGED <<server, readyState, wsType, registrationTimeout, closeCode,
                   closeReason, sent, calls, sendErrors>>

\* the registrations the plugins of the model make: two names that differ in
\* case only (one with a callback that throws), and the empty name
Registrations == {<<"foo", "cb1">>, <<"Foo", "cbThrows">>, <<"", "cb2">>}

Next ==
    \/ CreateServer
    \/ \E c \in Conns : Connection(c)
    \/ \E c \in Conns : RegistrationTimedOut(c)
    \/ \E c \in Conns : \E raw \in PayloadsOn(c) : OnMessage(c, raw)
    \/ \E c \in Conns : TransportClosed(c)
    \/ \E failing \in SUBSET Unreliable : TriggerEvent("test", "d1", failing)
    \/ \E reg \in Registrations : Register(reg[1], reg[2])
    \/ \E n \in PluginNames : Unregister(n)

Spec == Init /\ [][Next]_vars

\* Node fires a timer that is still pending
FairSpec == Spec /\ \A c \in Conns : WF_vars(RegistrationTimedOut(c))

TypeOK ==
    /\ server \in {"null", "listening"}
    /\ readyState \in [Conns -> {"NONE", "OPEN", "CLOSING", "CLOSED"}]
    /\ wsType \in [Conns -> {Null, "events"}]
    /\ registrationTimeout \in [Conns -> {"none", "pending", "cleared", "fired"}]
    /\ closeCode \in [Conns -> {0, RegistrationTimeoutCode, ProcessingErrorCode}]
    /\ Outputs <= MaxOutputs
    /\ handled \in {0, 1}
    /\ sendErrors \subseteq Conns


(***************************************************************************)
(* Properties.                                                             *)
(***************************************************************************)
IsInvoke(raw) == raw.json = "object" /\ raw.type = "invoke"
IsSubscribe(raw) == IsInvoke(raw) /\ raw.name = "subscribe-events"
IsPluginInvoke(raw) == IsInvoke(raw) /\ raw.name = "plugin"
HasPluginName(raw) == raw.pluginName # Undefined /\ raw.pluginName # ""
\* the entries of the handler table whose name is raw.pluginName, ignoring case
Matching(raw) ==
    {i \in 1..Len(customHandlers) :
        ToLowerCase(customHandlers[i].pluginName) = ToLowerCase(raw.pluginName)}
ErrorFrame(i, text) == [type |-> "response", id |-> i, name |-> "error", data |-> text]
SuccessFrame(i) == [type |-> "response", id |-> i, name |-> "success", data |-> Null]

\* C1: the role of a connection only ever changes from unset to events (so at
\* most once), and a subscribe-events invoke handled while the role is events
\* is answered with the error "socket already subscribed" and leaves the role
\* as it is.
C1_RoleChangesOnce ==
    [][\A c \in Conns :
        /\ wsType'[c] # wsType[c] => (wsType[c] = Null /\ wsType'[c] = "events")
        /\ \A raw \in PayloadsOn(c) :
              (wsType[c] = "events" /\ IsSubscribe(raw) /\ OnMessage(c, raw))
              => /\ sent'[c] = Append(sent[c], ErrorFrame(raw.id, "socket already subscribed"))
                 /\ wsType'[c] = "events"]_vars

\* C1 witness: a subscribed connection has been sent the error for a second
\* subscription.
C1_Witness ==
    \E c \in Conns :
        /\ wsType[c] = "events"
        /\ Len(sent[c]) = 2
        /\ sent[c][2].name = "error"
        /\ sent[c][2].data = "socket already subscribed"

\* C2 as claimed: every accepted connection that does not subscribe is
\* eventually closed with code 4000.
C2_Original ==
    \A c \in Conns :
        (readyState[c] = "OPEN" /\ registrationTimeout[c] = "pending")
        ~> (wsType[c] = "events" \/ closeCode[c] = RegistrationTimeoutCode)

\* C2 as amended: the timer of an accepted connection is eventually cancelled
\* by a subscription or fires, and when it fires on a connection that is still
\* open the connection is closed with code 4000 and the reason
\* "Registration timed out".
C2_TimeoutCloses ==
    /\ \A c \in Conns :
          (registrationTimeout[c] = "pending")
          ~> (registrationTimeout[c] = "fired" \/ wsType[c] = "events")
    /\ [][\A c \in Conns :
            (registrationTimeout'[c] = "fired" /\ registrationTimeout[c] # "fired"
             /\ readyState[c] = "OPEN")
            => /\ readyState'[c] = "CLOSING"
               /\ closeCode'[c] = 4000
               /\ closeReason'[c] = "Registration timed out"]_vars

\* C2 witness: a connection that never subscribed was closed by the watchdog.
C2_Witness ==
    \E c \in Conns :
        /\ wsType[c] = Null
        /\ readyState[c] = "CLOSED"
        /\ closeCode[c] = 4000
        /\ closeReason[c] = "Registration timed out"
        /\ sent[c] = <<>>

\* C3: a connection whose role is events and that the watchdog has not closed
\* is not closed with code 4000 by any later step.
C3_NoTimeoutAfterSubscribe ==
    [][\A c \in Conns :
        (wsType[c] = "events" /\ closeCode[c] # 4000) => closeCode'[c] # 4000]_vars

\* C3 witness: a connection subscribed while its timer was pending and went on
\* to receive an event.
C3_Witness ==
    \E c \in Conns :
        /\ wsType[c] = "events"
        /\ registrationTimeout[c] = "cleared"
        /\ Len(sent[c]) = 2
        /\ sent[c][1].name = "success"
        /\ sent[c][2].type = "event"


\* C4: the handling of an invoke frame on a connection hands exactly one
\* response frame to that connection and none to any other, except a "plugin"
\* invoke whose pluginName matches a registered handler, which hands none.
C4_OneResponsePerInvoke ==
    [][\A c \in Conns : \A raw \in PayloadsOn(c) :
        (IsInvoke(raw) /\ OnMessage(c, raw))
        => /\ \A d \in Conns \ {c} : sent'[d] = sent[d]
           /\ IF IsPluginInvoke(raw) /\ HasPluginName(raw) /\ Matching(raw) # {}
              THEN sent'[c] = sent[c]
              ELSE /\ Len(sent'[c]) = Len(sent[c]) + 1
                   /\ SubSeq(sent'[c], 1, Len(sent[c])) = sent[c]
                   /\ sent'[c][Len(sent'[c])].type = "response"]_vars

\* C4 witness: one connection has been answered once, and a registered plugin
\* handler has been called without any response.
C4_Witness ==
    /\ Len(sent["c1"]) = 1
    /\ sent["c1"][1].type = "response"
    /\ Len(calls) = 1
    /\ sent["c2"] = <<>>

\* C5: every response frame handed to a connection is handed over by the
\* handling of an invoke frame of that connection, carries that frame's id,
\* and has the name "success" or "error".
C5_ResponseEchoesId ==
    [][\A c \in Conns : \A k \in (Len(sent[c]) + 1)..Len(sent'[c]) :
        sent'[c][k].type = "response"
        => /\ sent'[c][k].name \in {"success", "error"}
           /\ \E raw \in PayloadsOn(c) :
                 /\ IsInvoke(raw)
                 /\ OnMessage(c, raw)
                 /\ sent'[c][k].id = raw.id]_vars

\* C5 witness: an error response and a success response with different ids.
C5_Witness ==
    \E c \in Conns :
        /\ Len(sent[c]) = 2
        /\ sent[c][1].name = "error" /\ sent[c][1].id = 2
        /\ sent[c][2].name = "success" /\ sent[c][2].id = 1

\* C6 as claimed: the subscribe-events frame with id 1, handled twice on a
\* fresh connection, is answered with success (id 1) and then with the error
\* "socket already subscribed" under id 2.
C6_Original ==
    [][\A c \in Conns :
        /\ (sent[c] = <<>> /\ wsType[c] = Null /\ OnMessage(c, SubscribePayload(1)))
           => sent'[c] = <<SuccessFrame(1)>>
        /\ (sent[c] = <<SuccessFrame(1)>> /\ OnMessage(c, SubscribePayload(1)))
           => sent'[c] = <<SuccessFrame(1), ErrorFrame(2, "socket already subscribed")>>]_vars

\* C6 as amended: the second response carries id 1, the id of the frame it
\* answers.
C6_SubscribeTwice ==
    [][\A c \in Conns :
        /\ (sent[c] = <<>> /\ wsType[c] = Null /\ OnMessage(c, SubscribePayload(1)))
           => sent'[c] = <<SuccessFrame(1)>>
        /\ (sent[c] = <<SuccessFrame(1)>> /\ OnMessage(c, SubscribePayload(1)))
           => sent'[c] = <<SuccessFrame(1), ErrorFrame(1, "socket already subscribed")>>]_vars

\* C6 witness: both responses have been handed to the connection, in order.
C6_Witness ==
    \E c \in Conns :
        sent[c] = <<SuccessFrame(1), ErrorFrame(1, "socket already subscribed")>>

\* C7: a "plugin" invoke whose pluginName is absent or empty is answered with
\* the error "Must specify pluginName" under the invoke's id and calls no
\* callback, whatever the handler table holds.
C7_MissingPluginName ==
    [][\A c \in Conns : \A raw \in PayloadsOn(c) :
        (IsPluginInvoke(raw) /\ ~HasPluginName(raw) /\ OnMessage(c, raw))
        => /\ sent'[c] = Append(sent[c], ErrorFrame(raw.id, "Must specify pluginName"))
           /\ calls' = calls]_vars

\* C7 witness: the error was sent while a handler was registered under the
\* empty name.
C7_Witness ==
    /\ \E i \in 1..Len(customHandlers) : customHandlers[i].pluginName = ""
    /\ Len(sent["c1"]) = 1
    /\ sent["c1"][1] = ErrorFrame(1, "Must specify pluginName")
    /\ calls = <<>>

\* C8: a "plugin" invoke whose pluginName equals, ignoring case, the name of a
\* registered handler calls that handler's callback once with the frame's
\* data, and calls no other callback.
C8_PluginCallback ==
    [][\A c \in Conns : \A raw \in PayloadsOn(c) :
        (IsPluginInvoke(raw) /\ HasPluginName(raw) /\ Matching(raw) # {}
         /\ OnMessage(c, raw))
        => \E i \in Matching(raw) :
              calls' = Append(calls, [callback |-> customHandlers[i].callback,
                                      data |-> raw.data])]_vars

\* C8 witness: with two handlers registered, the one registered as "foo" was
\* called once, by the invoke that names "Foo".
C8_Witness ==
    /\ Len(customHandlers) = 2
    /\ \E i \in 1..2 : customHandlers[i] = [pluginName |-> "foo", callback |-> "cb1"]
    /\ calls = <<[callback |-> "cb1", data |-> "d1"]>>

\* C9: a "plugin" invoke with a non-empty pluginName that matches no handler
\* in the table when the frame is handled is answered with the error
\* "Unknown plugin name specified" and calls no callback.
C9_UnknownPlugin ==
    [][\A c \in Conns : \A raw \in PayloadsOn(c) :
        (IsPluginInvoke(raw) /\ HasPluginName(raw) /\ Matching(raw) = {}
         /\ OnMessage(c, raw))
        => /\ sent'[c] = Append(sent[c], ErrorFrame(raw.id, "Unknown plugin name specified"))
           /\ calls' = calls]_vars

\* C9 witness: a handler was called for an invoke and later, after it was
\* unregistered, the same name was answered as unknown.
C9_Witness ==
    /\ calls = <<[callback |-> "cb1", data |-> "d1"]>>
    /\ sent["c1"] = <<ErrorFrame(2, "Unknown plugin name specified")>>
    /\ customHandlers = <<>>

\* the error a client logic error is answered with, "" if raw is none
LogicError(c, raw) ==
    IF ~IsInvoke(raw) THEN ""
    ELSE IF raw.name = "subscribe-events"
         THEN IF wsType[c] = "events" THEN "socket already subscribed" ELSE ""
    ELSE IF raw.name = "plugin"
         THEN IF ~HasPluginName(raw) THEN "Must specify pluginName"
              ELSE IF Matching(raw) = {} THEN "Unknown plugin name specified" ELSE ""
    ELSE "unknown command invocation"

\* C10: the handling of a client logic error (second subscription, missing
\* plugin name, unknown plugin name, any other command name) sends the error
\* response and leaves the connection's state, role and timer as they were.
C10_LogicErrorKeepsConnection ==
    [][\A c \in Conns : \A raw \in PayloadsOn(c) :
        (LogicError(c, raw) # "" /\ OnMessage(c, raw))
        => /\ sent'[c] = Append(sent[c], ErrorFrame(raw.id, LogicError(c, raw)))
           /\ readyState'[c] = readyState[c]
           /\ closeCode'[c] = closeCode[c]
           /\ wsType'[c] = wsType[c]
           /\ registrationTimeout'[c] = registrationTimeout[c]]_vars

\* C10 witness: an open, unsubscribed connection with its timer pending has
\* been answered two errors, the second for an unknown command.
C10_Witness ==
    /\ readyState["c1"] = "OPEN"
    /\ wsType["c1"] = Null
    /\ registrationTimeout["c1"] = "pending"
    /\ Len(sent["c1"]) = 2
    /\ sent["c1"][1].name = "error"
    /\ sent["c1"][2] = ErrorFrame(1, "unknown command invocation")

\* the message of the exception the handling of raw raises, "" if it raises
\* none: the parse error of an unparsable frame, or the error of the callback
\* a plugin invoke reaches
ThrownError(raw) ==
    IF raw.json = "invalid" THEN "Unexpected token in JSON"
    ELSE IF /\ IsPluginInvoke(raw) /\ HasPluginName(raw)
            /\ \E i \in Matching(raw) : CallbackThrows(customHandlers[i].callback)
         THEN CallbackErrorMessage
    ELSE ""

EventFrame(eventType, payload) ==
    [type |-> "event", id |-> 0, name |-> eventType, data |-> payload]

\* C12: in whatever state the connections are, a broadcast hands exactly one
\* event frame to every connection that is open and has the role events, and
\* nothing to any other connection.
C12_BroadcastToOpenEventClients ==
    [][\A failing \in SUBSET Unreliable :
        TriggerEvent("test", "d1", failing)
        => \A c \in Conns :
              IF readyState[c] = "OPEN" /\ wsType[c] = "events"
              THEN sent'[c] = Append(sent[c], EventFrame("test", "d1"))
              ELSE sent'[c] = sent[c]]_vars

\* C12 witness: a broadcast reached the subscribed open connection and not
\* the open connection that has no role.
C12_Witness ==
    /\ readyState["c1"] = "OPEN" /\ wsType["c1"] = "events"
    /\ sent["c1"] = <<SuccessFrame(1), EventFrame("test", "d1")>>
    /\ readyState["c2"] = "OPEN" /\ wsType["c2"] = Null
    /\ sent["c2"] = <<>>

\* C13: a broadcast in which the send to some recipient fails still hands the
\* event frame to every open connection with the role events, the failing
\* ones and all the others; the failure is logged and the call returns.
C13_SendFailureIsolated ==
    [][\A failing \in SUBSET Unreliable :
        (failing # {} /\ TriggerEvent("test", "d1", failing))
        => /\ \A c \in Conns :
                 (readyState[c] = "OPEN" /\ wsType[c] = "events")
                 => sent'[c] = Append(sent[c], EventFrame("test", "d1"))
           /\ sendErrors' = sendErrors \cup failing
           /\ handled' # handled]_vars

\* C13 witness: the send to the second connection failed in a broadcast that
\* reached the first connection too.
C13_Witness ==
    /\ sendErrors = {"c2"}
    /\ sent["c2"] = <<SuccessFrame(1), EventFrame("test", "d1")>>
    /\ readyState["c1"] = "OPEN"
    /\ sent["c1"] = <<SuccessFrame(1), EventFrame("test", "d1")>>

\* the entries of the table handlers whose name is not n, ignoring case
Others(handlers, n) ==
    SelectSeq(handlers, LAMBDA h : ToLowerCase(h.pluginName) # ToLowerCase(n))

\* C14: the handler table never holds two entries whose names are equal
\* ignoring case, and a registration under a name that an entry has, ignoring
\* case, returns false and leaves the table, the entry's callback included,
\* as it is.
C14_OneEntryPerName ==
    /\ \A i, j \in 1..Len(customHandlers) :
          ToLowerCase(customHandlers[i].pluginName) = ToLowerCase(customHandlers[j].pluginName)
          => i = j
    /\ \A reg \in Registrations :
          (\E i \in 1..Len(customHandlers) :
              ToLowerCase(customHandlers[i].pluginName) = ToLowerCase(reg[1]))
          => LET call == registerCustomWebSocketListener(customHandlers, reg[1], reg[2])
             IN call.returned = FALSE /\ call.handlers = customHandlers

\* C14 witness: a table of two entries after an odd number of calls: the
\* third call changed nothing, as a registration of "Foo" with another
\* callback does when "foo" is registered.
C14_Witness ==
    /\ customHandlers = <<[pluginName |-> "foo", callback |-> "cb1"],
                          [pluginName |-> "", callback |-> "cb2"]>>
    /\ handled = 1
    /\ sent = [c \in Conns |-> <<>>]

\* C15: unregistering a name that no entry has, ignoring case, returns false
\* and leaves the table as it is; unregistering a name that an entry has
\* returns true and removes that entry and no other, after which a
\* registration under that name returns true.
C15_Unregister ==
    \A n \in PluginNames :
        LET call == unregisterCustomWebSocketListener(customHandlers, n)
        IN IF Others(customHandlers, n) = customHandlers
           THEN call.returned = FALSE /\ call.handlers = customHandlers
           ELSE /\ call.returned = TRUE
                /\ call.handlers = Others(customHandlers, n)
                /\ Len(call.handlers) = Len(customHandlers) - 1
                /\ \A cb \in Callbacks :
                      registerCustomWebSocketListener(call.handlers, n, cb).returned = TRUE

\* C15 witness: the callback registered as "foo" was called, and the table
\* now holds the empty name and "Foo" with another callback: "foo" was
\* unregistered and the name registered again.
C15_Witness ==
    /\ customHandlers = <<[pluginName |-> "", callback |-> "cb2"],
                          [pluginName |-> "Foo", callback |-> "cbThrows"]>>
    /\ \E k \in 1..Len(calls) : calls[k].callback = "cb1"

\* C16: a connection that stops being open while its role is unset has its
\* registration timer cancelled by that step, so the timer callback never
\* runs for a connection that is not open; and a closed connection stays as
\* it is when it is closed again.
C16_CloseCancelsTimer ==
    [][\A c \in Conns :
        /\ (readyState[c] = "OPEN" /\ readyState'[c] # "OPEN" /\ wsType[c] = Null)
           => registrationTimeout'[c] # "pending"
        /\ (registrationTimeout[c] = "pending" /\ registrationTimeout'[c] = "fired")
           => readyState[c] = "OPEN"
        /\ readyState[c] = "CLOSED"
           => /\ readyState'[c] = "CLOSED"
              /\ closeCode'[c] = closeCode[c]
              /\ closeReason'[c] = closeReason[c]]_vars

\* C17: once a connection has been closed (by the timer with 4000, by the
\* catch block with 4006, or by the transport), no step changes its role or
\* hands a success response to it, the handling of a subscribe-events frame
\* that was in flight included.
C17_ClosedIsTerminal ==
    [][\A c \in Conns :
        readyState[c] \in {"CLOSING", "CLOSED"}
        => /\ wsType'[c] = wsType[c]
           /\ \A k \in (Len(sent[c]) + 1)..Len(sent'[c]) : sent'[c][k].name # "success"]_vars

\* a step of connection c alone: its accept, its timer, one of its frames, or
\* the end of its transport
EventOn(c) ==
    \/ Connection(c)
    \/ RegistrationTimedOut(c)
    \/ \E raw \in PayloadsOn(c) : OnMessage(c, raw)
    \/ TransportClosed(c)

\* C18: whatever happens on one connection (a malformed frame, a callback
\* that throws, a client logic error, the registration timeout, a close)
\* leaves the role, the timer, the state and the close code of every other
\* connection as they were and hands no frame to any other connection.
C18_ConnectionsIsolated ==
    [][\A c \in Conns :
        EventOn(c)
        => \A d \in Conns \ {c} :
              /\ wsType'[d] = wsType[d]
              /\ registrationTimeout'[d] = registrationTimeout[d]
              /\ readyState'[d] = readyState[d]
              /\ closeCode'[d] = closeCode[d]
              /\ closeReason'[d] = closeReason[d]
              /\ sent'[d] = sent[d]]_vars

\* C18 witness: the first connection was closed with 4006 while the second
\* one stays open and subscribed, with the one response it was sent.
C18_Witness ==
    /\ closeCode["c1"] = ProcessingErrorCode
    /\ readyState["c2"] = "OPEN"
    /\ wsType["c2"] = "events"
    /\ registrationTimeout["c2"] = "cleared"
    /\ sent["c2"] = <<SuccessFrame(1)>>

\* C19: the handling of a well-formed frame whose type is "response", or any
\* other value than "invoke", hands no frame to any connection, calls no
\* callback, and leaves the connection's state, close code, role and timer and
\* the handler table as they were.
C19_OtherTypesIgnored ==
    [][\A c \in Conns : \A raw \in PayloadsOn(c) :
        (raw.json = "object" /\ raw.type # "invoke" /\ OnMessage(c, raw))
        => /\ sent' = sent
           /\ calls' = calls
           /\ readyState' = readyState
           /\ closeCode' = closeCode
           /\ wsType' = wsType
           /\ registrationTimeout' = registrationTimeout
           /\ customHandlers' = customHandlers]_vars

\* C19 witness: an open connection with no role and its timer pending, after
\* one call that left no other trace, as the handling of a "response" frame
\* does.
C19_Witness ==
    /\ readyState["c1"] = "OPEN" /\ readyState["c2"] = "NONE"
    /\ wsType["c1"] = Null
    /\ registrationTimeout["c1"] = "pending"
    /\ handled = 1
    /\ sent = [c \in Conns |-> <<>>]
    /\ calls = <<>>
    /\ customHandlers = <<>>

\* a well-formed frame that is no subscribe-events invoke: a plugin invoke,
\* another command, or a frame of another type
NotSubscribe(raw) == raw.json = "object" /\ ~IsSubscribe(raw)

\* C20 as claimed: the handling of a plugin invoke (one that reaches a
\* registered callback included), of an unknown command or of a frame of
\* another type on an open connection with no role and its timer pending
\* leaves the role unset, the timer pending and the connection open, and the
\* timer that fires on such a connection closes it with code 4000.
C20_Original ==
    [][\A c \in Conns :
        /\ \A raw \in PayloadsOn(c) :
              (/\ NotSubscribe(raw)
               /\ readyState[c] = "OPEN" /\ wsType[c] = Null
               /\ registrationTimeout[c] = "pending"
               /\ OnMessage(c, raw))
              => /\ wsType'[c] = Null
                 /\ registrationTimeout'[c] = "pending"
                 /\ readyState'[c] = "OPEN"
        /\ (readyState[c] = "OPEN" /\ RegistrationTimedOut(c))
           => closeCode'[c] = RegistrationTimeoutCode]_vars

\* C20 as amended: a pending timer is cancelled only by the handling of a
\* subscribe-events invoke that sets the role; the handling of any other
\* well-formed frame leaves the role unset and the timer pending, and leaves
\* the connection open unless a callback it reached threw (which closes the
\* connection with 4006); and the timer that fires on an open connection
\* closes it with code 4000.
C20_OnlySubscribeStopsWatchdog ==
    [][\A c \in Conns :
        /\ (registrationTimeout[c] = "pending" /\ registrationTimeout'[c] = "cleared")
           => /\ wsType[c] = Null /\ wsType'[c] = "events"
              /\ \E raw \in PayloadsOn(c) : IsSubscribe(raw) /\ OnMessage(c, raw)
        /\ \A raw \in PayloadsOn(c) :
              (/\ NotSubscribe(raw)
               /\ readyState[c] = "OPEN" /\ wsType[c] = Null
               /\ registrationTimeout[c] = "pending"
               /\ OnMessage(c, raw))
              => /\ wsType'[c] = Null
                 /\ registrationTimeout'[c] = "pending"
                 /\ IF ThrownError(raw) = ""
                    THEN readyState'[c] = "OPEN"
                    ELSE closeCode'[c] = ProcessingErrorCode
        /\ (readyState[c] = "OPEN" /\ RegistrationTimedOut(c))
           => /\ readyState'[c] = "CLOSING"
              /\ closeCode'[c] = RegistrationTimeoutCode]_vars

\* C20 witness: a connection that was answered an error for an unknown
\* command and whose plugin invoke reached a registered callback never got a
\* role and was closed with code 4000.
C20_Witness ==
    /\ sent["c1"] = <<ErrorFrame(1, "unknown command invocation")>>
    /\ calls = <<[callback |-> "cb1", data |-> "d1"]>>
    /\ wsType["c1"] = Null
    /\ registrationTimeout["c1"] = "fired"
    /\ closeCode["c1"] = RegistrationTimeoutCode

====
